---- MODULE Spec2Model ----
(***************************************************************************)
(* FluxShareServer (src/src/index.ts, the class that starts at line 346):  *)
(* the public history, the private rooms, the upload pipeline and the      *)
(* list of logically deleted files, as a state machine.                    *)
(*                                                                         *)
(* One action is one uninterrupted run of server code: a whole event       *)
(* handler when it does not await, and otherwise the part of it up to an   *)
(* await or from an await to its end.  Node runs one such piece at a time. *)
(*  - An await of fs.writeFile / fs.unlink ends when the I/O completes,    *)
(*    in a later turn of the event loop: any handler may run in between.   *)
(*    The I/O itself runs on a thread of the pool: the file appears in, or *)
(*    leaves, uploadDir in a step of its own, before the await ends.       *)
(*  - An await of a promise that is already settled (processUpload of a    *)
(*    string, or of a file it rejects before writing) resumes from the     *)
(*    microtask queue, in FIFO order, before any I/O completion or the     *)
(*    event of another connection is handled; only handlers of events the  *)
(*    same socket sent in the same batch (socket.io dispatches them with   *)
(*    process.nextTick) start before it.                                   *)
(***************************************************************************)
EXTENDS Integers, Sequences, FiniteSets, TLC

\* ------------------------------------------------------------------ bounds
\* upload events (public:upload and room:upload) received in one behaviour
MaxUploads == 3
\* room objects alive at once (registered, or held by a suspended upload)
MaxRoomObjs == 2
\* options.maxPublicHistory ranges over 0..MaxHistoryOption
MaxHistoryOption == 2
\* options.maxFileSize of the modelled server
maxFileSize == 1
\* files accepted for writing in one behaviour, in the specifications whose
\* uploads are guarded by WithinFiles
MaxFiles == 2

Sockets == {"s1", "s2"}
\* the room ids clients send: a roomId is any string, and socket.io keeps
\* every socket in the room named by its own id, so under the id of s1
\* socket.rooms.has(roomId) holds for s1 from its connection on, and for the
\* other socket only once it has joined
RoomIds == {"s1"}
Modes == {"singleton", "live", "history"}
\* options.capacity of room:create: with two sockets, a capacity above 2 is never reached
Capacities == {0, 1, 2}
\* the calls of cleanupDeletedFiles that may be in flight at once
SweepSlots == {1, 2}
Contents == {"a", "b"}
\* data.content.length of an uploaded file: at the limit and one above it
FileLens == {maxFileSize, maxFileSize + 1}

\* ------------------------------------------------------------- data model
\* StringData / StoredFileData (fileName and mimeType are copied through
\* unchanged and decide nothing; they are left out)
StringData(c) == [type |-> "string", content |-> c]
StoredFileData(fid, len) == [type |-> "file", fileId |-> fid, size |-> len]

\* what a client sends: TransferData
TransferData ==
    {[type |-> "string", content |-> c] : c \in Contents}
      \cup {[type |-> "file", length |-> n] : n \in FileLens}

\* RoomData.data: undefined, one StoredData, or an array of StoredData
Undefined == [tag |-> "undefined"]
Single(item) == [tag |-> "item", item |-> item]
Array(items) == [tag |-> "array", items |-> items]

\* a slot of the heap that holds no room object
NoRoom == [id |-> "", capacity |-> 0, mode |-> "none", clients |-> {}, data |-> Undefined]

\* null, as processUpload returns it
Null == [type |-> "null"]

Range(s) == {s[i] : i \in 1..Len(s)}

VARIABLES
    uploadDir,         \* options.uploadDir is set
    maxPublicHistory,  \* this.maxPublicHistory
    publicHistory,     \* this.publicHistory
    rooms,             \* this.rooms: the entries [id, obj] of the Map, in insertion order
    heap,              \* the RoomData objects, by slot
    deletedFiles,      \* this.deletedFiles, in insertion order
    stored,            \* file ids that exist in uploadDir
    partial,           \* those of them that are not written in full: the file of a
                       \* write under way, or what a failed fs.writeFile left behind
    sockState,         \* socket -> "new" | "connected" | "disconnected"
    sockRooms,         \* socket.rooms: the socket's own id and the rooms it joined
    uploads,           \* upload handlers suspended in their await
    microQ,            \* uids of the uploads that resume from the microtask queue
    nUploads,          \* upload events received so far
    nFiles,            \* randomUUID() calls so far; the k-th returns k
    sweeps,            \* the calls of cleanupDeletedFiles, by slot: where each is in
                       \* its loop, how the fs.unlink it awaits has ended, and what
                       \* was added to deletedFiles since it began
    emitted,           \* what the last step emitted
    reply              \* what the last step passed to its callback or returned

vars == <<uploadDir, maxPublicHistory, publicHistory, rooms, heap, deletedFiles, stored,
          partial, sockState, sockRooms, uploads, microQ, nUploads, nFiles, sweeps, emitted,
          reply>>

NoEmit == [event |-> "none"]
NoReply == [op |-> "none"]
IdleSweep == [pc |-> "idle"]

Init ==
    /\ uploadDir \in BOOLEAN
    /\ maxPublicHistory \in 0..MaxHistoryOption
    /\ publicHistory = <<>>
    /\ rooms = <<>>
    /\ heap = [o \in 1..MaxRoomObjs |-> NoRoom]
    /\ deletedFiles = <<>>
    /\ stored = {}
    /\ partial = {}
    /\ sockState = [s \in Sockets |-> "new"]
    /\ sockRooms = [s \in Sockets |-> {}]
    /\ uploads = {}
    /\ microQ = <<>>
    /\ nUploads = 0
    /\ nFiles = 0
    /\ sweeps = [k \in SweepSlots |-> IdleSweep]
    /\ emitted = NoEmit
    /\ reply = NoReply

cfgVars == <<uploadDir, maxPublicHistory>>

\* the connected sockets: the recipients of io.emit
Connected == {s \in Sockets : sockState[s] = "connected"}

\* the sockets in socket.io room r: the recipients of io.to(r).emit
InRoom(r) == {s \in Connected : r \in sockRooms[s]}

\* a new turn of the event loop starts only with the microtask queue drained
NewTurn == microQ = <<>>

\* socket s can have an event handler started now: s is connected, and while
\* microtasks are pending only the socket whose batch queued them goes on
CanHandle(s) ==
    /\ sockState[s] = "connected"
    /\ \/ microQ = <<>>
       \/ microQ # <<>> /\ \E u \in uploads : u.uid = Head(microQ) /\ u.sock = s

\* the calls of cleanupDeletedFiles after a handler has run that turned
\* deletedFiles from df into after: each call that is suspended in fs.unlink
\* has the ids that were added noted in `marked`, the record of what was
\* added to the Set since the call began
NoteMarks(sw, df, after) ==
    [k \in DOMAIN sw |->
        IF sw[k].pc = "unlink"
        THEN [sw[k] EXCEPT !.marked = @ \cup (Range(after) \ Range(df))]
        ELSE sw[k]]

\* Mark that waits for the cleanups to end: an add during a cleanup is dropped
MarkUnlessSweeping(df, id) ==
    IF id \in Range(df) \/ \E k \in DOMAIN sweeps : sweeps[k].pc = "unlink"
    THEN df
    ELSE Append(df, id)

\* this.deletedFiles.add(id)
Mark(df, id) == IF id \in Range(df) THEN df ELSE Append(df, id)

\* for (const item of items) if (item.type === 'file') this.deletedFiles.add(item.fileId)
RECURSIVE MarkFiles(_, _)
MarkFiles(df, items) ==
    IF items = <<>> THEN df
    ELSE MarkFiles(IF Head(items).type = "file" THEN Mark(df, Head(items).fileId) ELSE df,
                   Tail(items))

\* this.rooms.get(r): the heap slot of the room registered under r, 0 for undefined
RoomSlot(r) ==
    IF \E i \in 1..Len(rooms) : rooms[i].id = r
    THEN (CHOOSE e \in Range(rooms) : e.id = r).obj
    ELSE 0

\* a room object no Map entry and no suspended handler refers to is garbage
Collect(h, rs, ups) ==
    [o \in DOMAIN h |->
        IF o \in {e.obj : e \in Range(rs)} \cup {u.room : u \in ups} THEN h[o] ELSE NoRoom]

\* ------------------------------------------------------------- connection
\* io.on('connection'): socket.io has put the socket in the room of its own
\* id; handlePublicFlux sends the history to the new socket
Connect(s) ==
    /\ NewTurn
    /\ sockState[s] = "new"
    /\ sockState' = [sockState EXCEPT ![s] = "connected"]
    /\ sockRooms' = [sockRooms EXCEPT ![s] = {s}]
    /\ emitted' = [event |-> "public:history", to |-> {s}, data |-> publicHistory]
    /\ reply' = NoReply
    /\ UNCHANGED <<cfgVars, publicHistory, rooms, heap, deletedFiles, stored, partial, uploads,
                   microQ, nUploads, nFiles, sweeps>>

\* ----------------------------------------------------------------- upload
\* processUpload that rejects a file of exactly maxFileSize bytes (>= for >)
processUploadAtLimit(data) ==
    IF data.type = "string" THEN [pc |-> "micro", result |-> StringData(data.content)]
    ELSE IF data.type = "file" THEN
        IF ~uploadDir THEN [pc |-> "micro", result |-> Null]
        ELSE IF data.length >= maxFileSize THEN [pc |-> "micro", result |-> Null]
        ELSE [pc |-> "io", result |-> StoredFileData(nFiles + 1, data.length)]
    ELSE [pc |-> "micro", result |-> Null]

\* processUpload up to its first await: the result when it returns without
\* writing (pc "micro"), or the file it goes on to write (pc "io")
processUpload(data) ==
    IF data.type = "string" THEN [pc |-> "micro", result |-> StringData(data.content)]
    ELSE IF data.type = "file" THEN
        IF ~uploadDir THEN [pc |-> "micro", result |-> Null]
        ELSE IF data.length > maxFileSize THEN [pc |-> "micro", result |-> Null]
        ELSE [pc |-> "io", result |-> StoredFileData(nFiles + 1, data.length)]
    ELSE [pc |-> "micro", result |-> Null]

\* the handler calls processUpload(data) and suspends in `await`; what it
\* holds while suspended: its socket, its payload and the room it looked up
Suspend(s, target, r, obj, data) ==
    LET p == processUpload(data)
        u == [uid |-> nUploads + 1, sock |-> s, target |-> target, roomId |-> r,
              room |-> obj, data |-> data, pc |-> p.pc, result |-> p.result]
    IN /\ nUploads < MaxUploads
       /\ nUploads' = nUploads + 1
       /\ nFiles' = IF p.pc = "io" THEN nFiles + 1 ELSE nFiles
       /\ uploads' = uploads \cup {u}
       /\ microQ' = IF p.pc = "micro" THEN Append(microQ, u.uid) ELSE microQ

\* socket.on('public:upload') up to the await
PublicUpload(s, data) ==
    /\ CanHandle(s)
    /\ Suspend(s, "public", "", 0, data)
    /\ emitted' = NoEmit
    /\ reply' = NoReply
    /\ UNCHANGED <<cfgVars, publicHistory, rooms, heap, deletedFiles, stored, partial, sockState,
                   sockRooms, sweeps>>

\* PublicPush without the shift(): the history grows past the maximum
PublicPushNoShift(hist, item) == [history |-> Append(hist, item), removed |-> <<>>]

\* PublicPush with pop() for shift(): the newest item is removed, not the oldest
PublicPushDropNewest(hist, item) ==
    IF Len(hist) + 1 > maxPublicHistory
    THEN [history |-> hist, removed |-> <<item>>]
    ELSE [history |-> Append(hist, item), removed |-> <<>>]

\* PublicPush that reads the head for shifting it: the oldest item is
\* added to deletedFiles and stays in the history
PublicPushKeepHead(hist, item) ==
    LET pushed == Append(hist, item)
    IN IF Len(pushed) > maxPublicHistory
       THEN [history |-> pushed, removed |-> <<Head(pushed)>>]
       ELSE [history |-> pushed, removed |-> <<>>]

\* publicHistory.push(item), then shift() when the length exceeds the maximum
PublicPush(hist, item) ==
    LET pushed == Append(hist, item)
    IN IF Len(pushed) > maxPublicHistory
       THEN [history |-> Tail(pushed), removed |-> <<Head(pushed)>>]
       ELSE [history |-> pushed, removed |-> <<>>]

\* PublicResume without `if (!processedData) return`
PublicResumeNoReturn(u, processed) ==
    LET p == PublicPush(publicHistory, processed)
    IN /\ publicHistory' = p.history
       /\ deletedFiles' = MarkFiles(deletedFiles, p.removed)
       /\ emitted' = [event |-> "public:history", to |-> Connected, data |-> p.history]

\* PublicResume that emits before it pushes: the broadcast carries the
\* history as it was
PublicResumeEmitFirst(u, processed) ==
    IF processed = Null
    THEN /\ emitted' = NoEmit
         /\ UNCHANGED <<publicHistory, deletedFiles>>
    ELSE LET p == PublicPush(publicHistory, processed)
         IN /\ publicHistory' = p.history
            /\ deletedFiles' = MarkFiles(deletedFiles, p.removed)
            /\ emitted' = [event |-> "public:history", to |-> Connected, data |-> publicHistory]

\* socket.on('public:upload') after the await
PublicResume(u, processed) ==
    IF processed = Null
    THEN /\ emitted' = NoEmit
         /\ UNCHANGED <<publicHistory, deletedFiles>>
    ELSE LET p == PublicPush(publicHistory, processed)
         IN /\ publicHistory' = p.history
            /\ deletedFiles' = MarkFiles(deletedFiles, p.removed)
            /\ emitted' = [event |-> "public:history", to |-> Connected, data |-> p.history]

\* SingletonStore that keeps what the room holds already
SingletonStoreKeepFirst(room, processed) ==
    IF room.data.tag = "item" THEN room ELSE [room EXCEPT !.data = Single(processed)]

\* HistoryStore with unshift() for push(): the newest item comes first
HistoryStorePrepend(room, processed) ==
    [room EXCEPT !.data = Array(<<processed>> \o (IF @.tag = "array" THEN @.items ELSE <<>>))]

\* room.data after the singleton branch / the history branch stores the item
SingletonStore(room, processed) == [room EXCEPT !.data = Single(processed)]
HistoryStore(room, processed) ==
    [room EXCEPT !.data = Array(Append(IF @.tag = "array" THEN @.items ELSE <<>>, processed))]

\* OverwrittenFiles of a singleton branch that replaces room.data and marks nothing
OverwrittenFilesNone(room) == <<>>

\* the ids the singleton branch adds to deletedFiles before it replaces room.data
OverwrittenFiles(room) ==
    IF room.data.tag = "item" /\ room.data.item.type = "file" THEN <<room.data.item>> ELSE <<>>

\* Recipients of a handler that emits with socket.to(roomId) in every mode
RecipientsOthers(room, u) == InRoom(u.roomId) \ InRoom(u.sock)

\* who the item of upload u is emitted to: socket.to(roomId) in a live room,
\* io.to(roomId) in the others.  socket.to(roomId) is the broadcast to
\* roomId except the room named by the id of the socket: it leaves out every
\* socket in that room, the sender and whoever joined a room of that name
Recipients(room, u) ==
    IF room.mode = "live" THEN InRoom(u.roomId) \ InRoom(u.sock) ELSE InRoom(u.roomId)

\* socket.on('room:upload') after the await; `room` is the object the handler
\* read from this.rooms before it suspended
RoomResume(u, processed) ==
    LET room == heap[u.room]
        after == IF processed = Null \/ room.mode = "live" THEN room
                 ELSE IF room.mode = "singleton" THEN SingletonStore(room, processed)
                 ELSE HistoryStore(room, processed)
    IN /\ heap' = Collect([heap EXCEPT ![u.room] = after], rooms, uploads \ {u})
       /\ deletedFiles' = IF processed # Null /\ room.mode = "singleton"
                          THEN MarkFiles(deletedFiles, OverwrittenFiles(room))
                          ELSE deletedFiles
       /\ emitted' = IF processed = Null THEN NoEmit
                     ELSE [event |-> "room:data", room |-> u.roomId, data |-> processed,
                           to |-> Recipients(room, u)]
       /\ reply' = IF processed = Null
                   THEN [op |-> "room:upload", sock |-> u.sock, success |-> FALSE,
                         message |-> "Failed to process upload."]
                   ELSE [op |-> "room:upload", sock |-> u.sock, success |-> TRUE,
                         message |-> "Data sent successfully."]

\* the rest of an upload handler, from its await to its end
Resume(u, processed) ==
    /\ uploads' = uploads \ {u}
    /\ IF u.target = "public"
       THEN /\ PublicResume(u, processed)
            /\ reply' = NoReply
            /\ UNCHANGED heap
       ELSE /\ RoomResume(u, processed)
            /\ UNCHANGED publicHistory

\* Microtask of a queue that runs its newest entry first
MicrotaskNewestFirst(u) ==
    /\ microQ # <<>>
    /\ u.uid = microQ[Len(microQ)]
    /\ microQ' = SubSeq(microQ, 1, Len(microQ) - 1)
    /\ Resume(u, u.result)
    /\ sweeps' = NoteMarks(sweeps, deletedFiles, deletedFiles')
    /\ UNCHANGED <<cfgVars, rooms, stored, partial, sockState, sockRooms, nUploads, nFiles>>

\* an upload whose processUpload returned without I/O resumes from the
\* microtask queue
Microtask(u) ==
    /\ microQ # <<>>
    /\ u.uid = Head(microQ)
    /\ microQ' = Tail(microQ)
    /\ Resume(u, u.result)
    /\ sweeps' = NoteMarks(sweeps, deletedFiles, deletedFiles')
    /\ UNCHANGED <<cfgVars, rooms, stored, partial, sockState, sockRooms, nUploads, nFiles>>

\* fs.writeFile of an upload opens its file: from here on the file is in
\* uploadDir, empty at first and then growing, while the handler is suspended
\* and other handlers run
WriteCreates(u) ==
    /\ u.pc = "io"
    /\ u.result.fileId \notin stored
    /\ stored' = stored \cup {u.result.fileId}
    /\ partial' = partial \cup {u.result.fileId}
    /\ emitted' = NoEmit
    /\ reply' = NoReply
    /\ UNCHANGED <<cfgVars, publicHistory, rooms, heap, deletedFiles, sockState, sockRooms,
                   uploads, microQ, nUploads, nFiles, sweeps>>

\* how fs.writeFile ends: it wrote the file; it threw and there is no file
\* (it could not open it); it threw after it had created the file (a full
\* disk, a quota, an I/O error), and the catch block leaves what was created
\* where it is
WriteOutcomes == {"ok", "error", "partial"}

\* fs.writeFile of an upload completes: the file is written and the handler
\* goes on with the StoredFileData, or the write threw and it goes on with
\* null
WriteDone(u, outcome) ==
    /\ NewTurn
    /\ u.pc = "io"
    /\ (outcome = "error") = (u.result.fileId \notin stored)
    /\ stored' = stored
    /\ partial' = IF outcome = "ok" THEN partial \ {u.result.fileId} ELSE partial
    /\ Resume(u, IF outcome = "ok" THEN u.result ELSE Null)
    /\ sweeps' = NoteMarks(sweeps, deletedFiles, deletedFiles')
    /\ UNCHANGED <<cfgVars, rooms, sockState, sockRooms, microQ, nUploads, nFiles>>

\* PublicDeleteLast that pops and does not add the file to deletedFiles
PublicDeleteLastNoMark(s) ==
    /\ CanHandle(s)
    /\ IF Len(publicHistory) > 0
       THEN LET popped == SubSeq(publicHistory, 1, Len(publicHistory) - 1)
            IN /\ publicHistory' = popped
               /\ emitted' = [event |-> "public:history", to |-> Connected, data |-> popped]
       ELSE /\ emitted' = NoEmit
            /\ UNCHANGED publicHistory
    /\ reply' = NoReply
    /\ UNCHANGED <<cfgVars, rooms, heap, deletedFiles, stored, partial, sockState, sockRooms, uploads,
                   microQ, nUploads, nFiles, sweeps>>

\* socket.on('public:deleteLast')
PublicDeleteLast(s) ==
    /\ CanHandle(s)
    /\ IF Len(publicHistory) > 0
       THEN LET removedItem == publicHistory[Len(publicHistory)]
                popped == SubSeq(publicHistory, 1, Len(publicHistory) - 1)
            IN /\ publicHistory' = popped
               /\ deletedFiles' = MarkFiles(deletedFiles, <<removedItem>>)
               /\ emitted' = [event |-> "public:history", to |-> Connected, data |-> popped]
       ELSE /\ emitted' = NoEmit
            /\ UNCHANGED <<publicHistory, deletedFiles>>
    /\ sweeps' = NoteMarks(sweeps, deletedFiles, deletedFiles')
    /\ reply' = NoReply
    /\ UNCHANGED <<cfgVars, rooms, heap, stored, partial, sockState, sockRooms, uploads, microQ,
                   nUploads, nFiles>>

\* ------------------------------------------------------------------ rooms
\* the lowest heap slot that holds no room object, 0 when there is none
FreeSlot ==
    IF \E o \in DOMAIN heap : heap[o] = NoRoom
    THEN CHOOSE o \in DOMAIN heap : heap[o] = NoRoom /\ \A p \in DOMAIN heap : heap[p] = NoRoom => o <= p
    ELSE 0

\* the RoomData createPrivateRooms builds
NewRoom(r, cap, mode) ==
    [id |-> r, capacity |-> cap, mode |-> mode, clients |-> {},
     data |-> IF mode = "history" THEN Array(<<>>) ELSE Undefined]

\* RoomCreate of a createPrivateRooms without the rooms.has test: rooms.set
\* replaces the room registered under the id
RoomCreateReplace(s, r, cap, mode) ==
    /\ CanHandle(s)
    /\ IF RoomSlot(r) # 0
       THEN /\ heap' = [heap EXCEPT ![RoomSlot(r)] = NewRoom(r, cap, mode)]
            /\ UNCHANGED rooms
       ELSE /\ FreeSlot # 0
            /\ heap' = [heap EXCEPT ![FreeSlot] = NewRoom(r, cap, mode)]
            /\ rooms' = Append(rooms, [id |-> r, obj |-> FreeSlot])
    /\ reply' = [op |-> "room:create", sock |-> s, success |-> TRUE, roomId |-> r,
                 message |-> "Room '" \o r \o "' created successfully."]
    /\ emitted' = NoEmit
    /\ UNCHANGED <<cfgVars, publicHistory, deletedFiles, stored, partial, sockState, sockRooms, uploads,
                   microQ, nUploads, nFiles, sweeps>>

\* socket.on('room:create'): createPrivateRooms(options), then the callback
RoomCreate(s, r, cap, mode) ==
    /\ CanHandle(s)
    /\ IF RoomSlot(r) # 0
       THEN /\ reply' = [op |-> "room:create", sock |-> s, success |-> FALSE, roomId |-> "",
                         message |-> "Room '" \o r \o "' already exists."]
            /\ UNCHANGED <<rooms, heap>>
       ELSE /\ FreeSlot # 0
            /\ heap' = [heap EXCEPT ![FreeSlot] = NewRoom(r, cap, mode)]
            /\ rooms' = Append(rooms, [id |-> r, obj |-> FreeSlot])
            /\ reply' = [op |-> "room:create", sock |-> s, success |-> TRUE, roomId |-> r,
                         message |-> "Room '" \o r \o "' created successfully."]
    /\ emitted' = NoEmit
    /\ UNCHANGED <<cfgVars, publicHistory, deletedFiles, stored, partial, sockState, sockRooms, uploads,
                   microQ, nUploads, nFiles, sweeps>>

\* the host calls the public method createPrivateRooms(options) itself: no
\* socket need be connected, and the call may come from a listener or a
\* promise of the host that runs while upload handlers are suspended
HostCreate(r, cap, mode) ==
    /\ IF RoomSlot(r) # 0
       THEN /\ reply' = [op |-> "createPrivateRooms", success |-> FALSE, roomId |-> "",
                         message |-> "Room '" \o r \o "' already exists."]
            /\ UNCHANGED <<rooms, heap>>
       ELSE /\ FreeSlot # 0
            /\ heap' = [heap EXCEPT ![FreeSlot] = NewRoom(r, cap, mode)]
            /\ rooms' = Append(rooms, [id |-> r, obj |-> FreeSlot])
            /\ reply' = [op |-> "createPrivateRooms", success |-> TRUE, roomId |-> r,
                         message |-> "Room '" \o r \o "' created successfully."]
    /\ emitted' = NoEmit
    /\ UNCHANGED <<cfgVars, publicHistory, deletedFiles, stored, partial, sockState, sockRooms,
                   uploads, microQ, nUploads, nFiles, sweeps>>

\* JoinData that answers with the data of singleton rooms only
JoinDataSingletonOnly(room) == IF room.mode = "singleton" THEN room.data ELSE Undefined

\* the `data` of a successful room:join response
JoinData(room) == IF room.mode \in {"singleton", "history"} THEN room.data ELSE Undefined

\* RoomJoin with > for >= in the capacity test: a full room takes one more
RoomJoinOneMore(s, r) ==
    /\ CanHandle(s)
    /\ LET obj == RoomSlot(r)
       IN IF obj = 0
          THEN /\ reply' = [op |-> "room:join", sock |-> s, success |-> FALSE,
                            message |-> "Room not found."]
               /\ UNCHANGED <<heap, sockRooms>>
          ELSE IF Cardinality(heap[obj].clients) > heap[obj].capacity
          THEN /\ reply' = [op |-> "room:join", sock |-> s, success |-> FALSE,
                            message |-> "Room is full."]
               /\ UNCHANGED <<heap, sockRooms>>
          ELSE /\ sockRooms' = [sockRooms EXCEPT ![s] = @ \cup {r}]
               /\ heap' = [heap EXCEPT ![obj].clients = @ \cup {s}]
               /\ reply' = [op |-> "room:join", sock |-> s, success |-> TRUE, roomId |-> r,
                            message |-> "Successfully joined room '" \o r \o "'.", data |-> JoinData(heap[obj])]
    /\ emitted' = NoEmit
    /\ UNCHANGED <<cfgVars, publicHistory, rooms, deletedFiles, stored, partial, sockState, uploads,
                   microQ, nUploads, nFiles, sweeps>>

\* socket.on('room:join')
RoomJoin(s, r) ==
    /\ CanHandle(s)
    /\ LET obj == RoomSlot(r)
       IN IF obj = 0
          THEN /\ reply' = [op |-> "room:join", sock |-> s, success |-> FALSE,
                            message |-> "Room not found."]
               /\ UNCHANGED <<heap, sockRooms>>
          ELSE IF Cardinality(heap[obj].clients) >= heap[obj].capacity
          THEN /\ reply' = [op |-> "room:join", sock |-> s, success |-> FALSE,
                            message |-> "Room is full."]
               /\ UNCHANGED <<heap, sockRooms>>
          ELSE /\ sockRooms' = [sockRooms EXCEPT ![s] = @ \cup {r}]
               /\ heap' = [heap EXCEPT ![obj].clients = @ \cup {s}]
               /\ reply' = [op |-> "room:join", sock |-> s, success |-> TRUE, roomId |-> r,
                            message |-> "Successfully joined room '" \o r \o "'.", data |-> JoinData(heap[obj])]
    /\ emitted' = NoEmit
    /\ UNCHANGED <<cfgVars, publicHistory, rooms, deletedFiles, stored, partial, sockState, uploads,
                   microQ, nUploads, nFiles, sweeps>>

\* the response of room:history for socket s and room id r
HistoryReply(s, r) ==
    LET obj == RoomSlot(r)
    IN IF obj = 0
       THEN [op |-> "room:history", sock |-> s, success |-> FALSE, message |-> "Room not found."]
       ELSE IF r \notin sockRooms[s]
       THEN [op |-> "room:history", sock |-> s, success |-> FALSE,
             message |-> "You are not a member of this room."]
       ELSE IF heap[obj].mode # "history"
       THEN [op |-> "room:history", sock |-> s, success |-> FALSE,
             message |-> "Room is not in history mode."]
       ELSE [op |-> "room:history", sock |-> s, success |-> TRUE,
             message |-> "History retrieved successfully.",
             data |-> IF heap[obj].data.tag = "array" THEN heap[obj].data.items ELSE <<>>]

\* socket.on('room:history')
RoomHistory(s, r) ==
    /\ CanHandle(s)
    /\ reply' = HistoryReply(s, r)
    /\ emitted' = NoEmit
    /\ UNCHANGED <<cfgVars, publicHistory, rooms, heap, deletedFiles, stored, partial, sockState,
                   sockRooms, uploads, microQ, nUploads, nFiles, sweeps>>

\* socket.on('room:upload') up to the await, or to its early return
RoomUpload(s, r, data) ==
    /\ CanHandle(s)
    /\ IF RoomSlot(r) = 0 \/ r \notin sockRooms[s]
       THEN /\ reply' = [op |-> "room:upload", sock |-> s, success |-> FALSE,
                         message |-> "You are not in this room."]
            /\ UNCHANGED <<uploads, microQ, nUploads, nFiles>>
       ELSE /\ Suspend(s, "room", r, RoomSlot(r), data)
            /\ reply' = NoReply
    /\ emitted' = NoEmit
    /\ UNCHANGED <<cfgVars, publicHistory, rooms, heap, deletedFiles, stored, partial, sockState,
                   sockRooms, sweeps>>

\* ------------------------------------------------------------- disconnect
\* RoomFiles of a handleDisconnect without the history branch
RoomFilesSingletonOnly(room) ==
    IF room.mode = "singleton" /\ room.data.tag = "item" /\ room.data.item.type = "file"
    THEN <<room.data.item>>
    ELSE <<>>

\* what handleDisconnect adds to deletedFiles for a room that became empty
RoomFiles(room) ==
    IF room.mode = "singleton" /\ room.data.tag = "item" /\ room.data.item.type = "file"
    THEN <<room.data.item>>
    ELSE IF room.mode = "history" /\ room.data.tag = "array" THEN room.data.items
    ELSE <<>>

\* RoomsDelete of a handleDisconnect that leaves the empty room in the Map
RoomsDeleteNone(rs, id) == rs

\* this.rooms.delete(id)
RoomsDelete(rs, id) == SelectSeq(rs, LAMBDA e : e.id # id)

\* handleDisconnect without the `room.clients.size === 0` test: a room is
\* destroyed when any of its clients leaves
RECURSIVE handleDisconnectAnyLeave(_, _, _)
handleDisconnectAnyLeave(s, todo, st) ==
    IF todo = <<>> THEN st
    ELSE LET e == Head(todo)
             room == st.heap[e.obj]
             left == [room EXCEPT !.clients = @ \ {s}]
         IN IF s \notin room.clients THEN handleDisconnectAnyLeave(s, Tail(todo), st)
            ELSE handleDisconnectAnyLeave(s, Tail(todo),
                     [heap |-> [st.heap EXCEPT ![e.obj] = left],
                      deletedFiles |-> MarkFiles(st.deletedFiles, RoomFiles(room)),
                      rooms |-> RoomsDelete(st.rooms, e.id)])

\* handleDisconnect: this.rooms.forEach over the entries `todo`, on the state
\* st = [heap, deletedFiles, rooms]
RECURSIVE handleDisconnect(_, _, _)
handleDisconnect(s, todo, st) ==
    IF todo = <<>> THEN st
    ELSE LET e == Head(todo)
             room == st.heap[e.obj]
             left == [room EXCEPT !.clients = @ \ {s}]
         IN IF s \notin room.clients THEN handleDisconnect(s, Tail(todo), st)
            ELSE IF left.clients # {}
            THEN handleDisconnect(s, Tail(todo), [st EXCEPT !.heap[e.obj] = left])
            ELSE handleDisconnect(s, Tail(todo),
                     [heap |-> [st.heap EXCEPT ![e.obj] = left],
                      deletedFiles |-> MarkFiles(st.deletedFiles, RoomFiles(room)),
                      rooms |-> RoomsDelete(st.rooms, e.id)])

\* socket.on('disconnect'); socket.io has emptied socket.rooms before it
Disconnect(s) ==
    /\ NewTurn
    /\ sockState[s] = "connected"
    /\ sockState' = [sockState EXCEPT ![s] = "disconnected"]
    /\ sockRooms' = [sockRooms EXCEPT ![s] = {}]
    /\ LET st == handleDisconnect(s, rooms,
                    [heap |-> heap, deletedFiles |-> deletedFiles, rooms |-> rooms])
       IN /\ rooms' = st.rooms
          /\ deletedFiles' = st.deletedFiles
          /\ heap' = Collect(st.heap, st.rooms, uploads)
    /\ sweeps' = NoteMarks(sweeps, deletedFiles, deletedFiles')
    /\ emitted' = NoEmit
    /\ reply' = NoReply
    /\ UNCHANGED <<cfgVars, publicHistory, stored, partial, uploads, microQ, nUploads, nFiles>>

\* ---------------------------------------------------------------- cleanup
\* the value cleanupDeletedFiles resolves to
CleanupResult(deleted, failed) == [op |-> "cleanup", deleted |-> deleted, failed |-> failed]

\* the lowest slot with no call of cleanupDeletedFiles in flight
IdleSlot(k) ==
    /\ sweeps[k] = IdleSweep
    /\ \A j \in DOMAIN sweeps : sweeps[j] = IdleSweep => k <= j

\* cleanupDeletedFiles() up to its first await, or to its return when there
\* is no uploadDir or nothing to iterate over; the host calls it when it
\* likes, also from a callback of its own that runs while an upload waits
\* in the microtask queue
CleanupStart(k) ==
    /\ IdleSlot(k)
    /\ IF ~uploadDir
       THEN /\ deletedFiles' = <<>>
            /\ reply' = CleanupResult(<<>>, <<>>)
            /\ UNCHANGED sweeps
       ELSE IF deletedFiles = <<>>
       THEN /\ reply' = CleanupResult(<<>>, <<>>)
            /\ UNCHANGED <<deletedFiles, sweeps>>
       ELSE /\ sweeps' = [sweeps EXCEPT ![k] = [pc |-> "unlink", pos |-> 1,
                                                cur |-> deletedFiles[1],
                                                res |-> "pending",
                                                deleted |-> <<>>, failed |-> <<>>,
                                                marked |-> {}]]
            /\ reply' = NoReply
            /\ UNCHANGED deletedFiles
    /\ emitted' = NoEmit
    /\ UNCHANGED <<cfgVars, publicHistory, rooms, heap, stored, partial, sockState, sockRooms, uploads,
                   microQ, nUploads, nFiles>>

\* DeleteAll of a cleanup that ends with this.deletedFiles.clear()
DeleteAllClear(df, deleted) == <<>>

\* for (const fileId of deleted) this.deletedFiles.delete(fileId)
DeleteAll(df, deleted) == SelectSeq(df, LAMBDA id : id \notin Range(deleted))

\* a Set iterator that has passed `pos` entries of df has passed those of them
\* that are left once the ids of `deleted` are removed
IteratorAfter(df, pos, deleted) == Cardinality({i \in 1..pos : df[i] \notin Range(deleted)})

\* the outcomes fs.unlink can have for a file id
UnlinkOutcomes(id) == IF id \in stored THEN {"ok", "error"} ELSE {"ENOENT", "error"}

\* the fs.unlink that call k of cleanupDeletedFiles awaits runs: the file
\* leaves uploadDir, or the unlink fails; the call is still suspended, and
\* learns of it when its await ends
UnlinkRuns(k, outcome) ==
    /\ sweeps[k].pc = "unlink"
    /\ sweeps[k].res = "pending"
    /\ outcome \in UnlinkOutcomes(sweeps[k].cur)
    /\ stored' = IF outcome = "ok" THEN stored \ {sweeps[k].cur} ELSE stored
    /\ partial' = IF outcome = "ok" THEN partial \ {sweeps[k].cur} ELSE partial
    /\ sweeps' = [sweeps EXCEPT ![k].res = outcome]
    /\ emitted' = NoEmit
    /\ reply' = NoReply
    /\ UNCHANGED <<cfgVars, publicHistory, rooms, heap, deletedFiles, sockState, sockRooms,
                   uploads, microQ, nUploads, nFiles>>

\* UnlinkDone of a catch block that lists the id under deleted whatever
\* the error code
UnlinkDoneAnyError(k, outcome) ==
    /\ NewTurn
    /\ sweeps[k].pc = "unlink"
    /\ sweeps[k].res = outcome
    /\ LET sw == sweeps[k]
           deleted == Append(sw.deleted, sw.cur)
           failed == sw.failed
       IN /\ IF sw.pos < Len(deletedFiles)
             THEN /\ sweeps' = [sweeps EXCEPT ![k] = [pc |-> "unlink", pos |-> sw.pos + 1,
                                                      cur |-> deletedFiles[sw.pos + 1],
                                                      res |-> "pending",
                                                      deleted |-> deleted, failed |-> failed,
                                                      marked |-> sw.marked]]
                  /\ reply' = NoReply
                  /\ UNCHANGED deletedFiles
             ELSE /\ deletedFiles' = DeleteAll(deletedFiles, deleted)
                  /\ sweeps' = [j \in DOMAIN sweeps |->
                                   IF j = k \/ sweeps[j] = IdleSweep THEN IdleSweep
                                   ELSE [sweeps[j] EXCEPT
                                           !.pos = IteratorAfter(deletedFiles, @, deleted)]]
                  /\ reply' = CleanupResult(deleted, failed)
    /\ emitted' = NoEmit
    /\ UNCHANGED <<cfgVars, publicHistory, rooms, heap, stored, partial, sockState, sockRooms,
                   uploads, microQ, nUploads, nFiles>>

\* the await of fs.unlink of a call of cleanupDeletedFiles ends; the loop
\* lists the id, takes the next id of the Set and suspends again, or ends
\* and the call returns
UnlinkDone(k, outcome) ==
    /\ NewTurn
    /\ sweeps[k].pc = "unlink"
    /\ sweeps[k].res = outcome
    /\ LET sw == sweeps[k]
           deleted == IF outcome = "error" THEN sw.deleted ELSE Append(sw.deleted, sw.cur)
           failed == IF outcome = "error" THEN Append(sw.failed, sw.cur) ELSE sw.failed
       IN /\ IF sw.pos < Len(deletedFiles)
             THEN /\ sweeps' = [sweeps EXCEPT ![k] = [pc |-> "unlink", pos |-> sw.pos + 1,
                                                      cur |-> deletedFiles[sw.pos + 1],
                                                      res |-> "pending",
                                                      deleted |-> deleted, failed |-> failed,
                                                      marked |-> sw.marked]]
                  /\ reply' = NoReply
                  /\ UNCHANGED deletedFiles
             ELSE /\ deletedFiles' = DeleteAll(deletedFiles, deleted)
                  /\ sweeps' = [j \in DOMAIN sweeps |->
                                   IF j = k \/ sweeps[j] = IdleSweep THEN IdleSweep
                                   ELSE [sweeps[j] EXCEPT
                                           !.pos = IteratorAfter(deletedFiles, @, deleted)]]
                  /\ reply' = CleanupResult(deleted, failed)
    /\ emitted' = NoEmit
    /\ UNCHANGED <<cfgVars, publicHistory, rooms, heap, stored, partial, sockState, sockRooms,
                   uploads, microQ, nUploads, nFiles>>

\* ------------------------------------------------------------------- spec
\* a socket connects or disconnects
Lifecycle ==
    \/ \E s \in Sockets : Connect(s)
    \/ \E s \in Sockets : Disconnect(s)

\* a suspended upload handler resumes, or the write it waits for creates
\* its file
Completion ==
    \/ \E u \in uploads : Microtask(u)
    \/ \E u \in uploads : WriteCreates(u)
    \/ \E u \in uploads, outcome \in WriteOutcomes : WriteDone(u, outcome)

\* the upload of data keeps the files of the behaviour within MaxFiles: it
\* starts no write, or fewer than MaxFiles writes were started before it
WithinFiles(data) == processUpload(data).pc = "io" => nFiles < MaxFiles

\* the files a client may send: one the server accepts and one it rejects
FilePayloads == {data \in TransferData : data.type = "file"}

\* the texts, and the file the server accepts when it has an uploadDir
AcceptedPayloads == {data \in TransferData : data.type = "string" \/ data.length <= maxFileSize}

\* one text, the file the server accepts and the file it rejects
UploadPayloads == {data \in TransferData : data.type = "file" \/ data.content = "a"}

\* the events of handlePublicFlux
PublicEvents ==
    \/ \E s \in Sockets, data \in TransferData : WithinFiles(data) /\ PublicUpload(s, data)
    \/ \E s \in Sockets : PublicDeleteLast(s)

\* the options a room:create for room id r is tried with: createPrivateRooms
\* reads only options.roomId when the id is taken, so one capacity and mode
\* stand for all of them there
CreateOptions(r) ==
    IF RoomSlot(r) # 0 THEN {[capacity |-> 1, mode |-> "singleton"]}
    ELSE [capacity : Capacities, mode : Modes]

\* the events of handlePrivateRooms, and the host's calls of createPrivateRooms;
\* a file over maxFileSize, which processUpload turns away as it does every
\* file when there is no uploadDir, is sent in SpecUploads and SpecFiles
RoomEvents ==
    \/ \E s \in Sockets, r \in RoomIds :
          \E options \in CreateOptions(r) : RoomCreate(s, r, options.capacity, options.mode)
    \/ \E r \in RoomIds :
          \E options \in CreateOptions(r) : HostCreate(r, options.capacity, options.mode)
    \/ \E s \in Sockets, r \in RoomIds : RoomJoin(s, r)
    \/ \E s \in Sockets, r \in RoomIds : RoomHistory(s, r)
    \/ \E s \in Sockets, r \in RoomIds, data \in AcceptedPayloads :
          WithinFiles(data) /\ RoomUpload(s, r, data)

\* the server calls cleanupDeletedFiles, and its unlinks run and complete
Cleanup ==
    \/ \E k \in SweepSlots : CleanupStart(k)
    \/ \E k \in SweepSlots, outcome \in {"ok", "ENOENT", "error"} : UnlinkRuns(k, outcome)
    \/ \E k \in SweepSlots, outcome \in {"ok", "ENOENT", "error"} : UnlinkDone(k, outcome)

Next == Lifecycle \/ Completion \/ PublicEvents \/ RoomEvents \/ Cleanup

\* the whole server
Spec == Init /\ [][Next]_vars

\* the server with clients that use the public channel only
NextPublic == Lifecycle \/ Completion \/ PublicEvents
SpecPublic == Init /\ [][NextPublic]_vars

\* the server with clients that use rooms only; the public history, which
\* no room handler reads, keeps one length limit
InitRooms == Init /\ maxPublicHistory = 0
NextRooms == Lifecycle \/ Completion \/ RoomEvents
SpecRooms == InitRooms /\ [][NextRooms]_vars

\* the server with clients that use the public channel, and cleanups; a
\* history of one item sends files to deletedFiles by eviction and by
\* public:deleteLast
InitCleanup == Init /\ maxPublicHistory = 1
NextCleanup == Lifecycle \/ Completion \/ PublicEvents \/ Cleanup
SpecCleanup == InitCleanup /\ [][NextCleanup]_vars

\* the options the rooms of SpecUploads and SpecFiles are created with: a
\* capacity that lets every socket in, and each mode
OpenRoomOptions(r) ==
    IF RoomSlot(r) # 0 THEN CreateOptions(r)
    ELSE {o \in CreateOptions(r) : o.capacity = Cardinality(Sockets)}

\* the events of handlePublicFlux, with the payloads of SpecUploads
UploadPublicEvents ==
    \/ \E s \in Sockets, data \in UploadPayloads : WithinFiles(data) /\ PublicUpload(s, data)
    \/ \E s \in Sockets : PublicDeleteLast(s)

\* the events of handlePrivateRooms that lead to uploads, and the host's
\* calls of createPrivateRooms
UploadRoomEvents ==
    \/ \E s \in Sockets, r \in RoomIds :
          \E options \in OpenRoomOptions(r) : RoomCreate(s, r, options.capacity, options.mode)
    \/ \E r \in RoomIds :
          \E options \in OpenRoomOptions(r) : HostCreate(r, options.capacity, options.mode)
    \/ \E s \in Sockets, r \in RoomIds : RoomJoin(s, r)
    \/ \E s \in Sockets, r \in RoomIds, data \in UploadPayloads :
          WithinFiles(data) /\ RoomUpload(s, r, data)

\* the options the rooms of SpecOverlap and SpecRoomsCleanup are created
\* with: singleton rooms, whose files reach deletedFiles both while the room
\* is active (a file that is overwritten) and when it is destroyed
SingletonOptions(r) == {o \in OpenRoomOptions(r) : o.mode = "singleton"}

\* the events of handlePrivateRooms that lead to files in singleton rooms,
\* and the host's calls of createPrivateRooms: as many files as MaxUploads
\* allows, so that two writes overlap in a room that holds a file
OverlapEvents ==
    \/ \E s \in Sockets, r \in RoomIds :
          \E options \in SingletonOptions(r) :
             RoomCreate(s, r, options.capacity, options.mode)
    \/ \E r \in RoomIds :
          \E options \in SingletonOptions(r) : HostCreate(r, options.capacity, options.mode)
    \/ \E s \in Sockets, r \in RoomIds : RoomJoin(s, r)
    \/ \E s \in Sockets, r \in RoomIds, data \in FilePayloads : RoomUpload(s, r, data)

\* the server with clients that upload files to singleton rooms
NextOverlap == Lifecycle \/ Completion \/ OverlapEvents
SpecOverlap == InitRooms /\ [][NextOverlap]_vars

\* the events of OverlapEvents with the files bounded by MaxFiles
LedgerRoomEvents ==
    \/ \E s \in Sockets, r \in RoomIds :
          \E options \in SingletonOptions(r) :
             RoomCreate(s, r, options.capacity, options.mode)
    \/ \E r \in RoomIds :
          \E options \in SingletonOptions(r) : HostCreate(r, options.capacity, options.mode)
    \/ \E s \in Sockets, r \in RoomIds : RoomJoin(s, r)
    \/ \E s \in Sockets, r \in RoomIds, data \in FilePayloads :
          WithinFiles(data) /\ RoomUpload(s, r, data)

\* the server with clients that upload files to singleton rooms, and cleanups
NextRoomsCleanup == Lifecycle \/ Completion \/ LedgerRoomEvents \/ Cleanup
SpecRoomsCleanup == InitRooms /\ [][NextRoomsCleanup]_vars

\* the server with clients that upload to the public channel and to rooms,
\* and no cleanup; the history keeps one item, so that files leave it by
\* eviction; room:history, which changes nothing, is left out
InitUploads == Init /\ maxPublicHistory = 1
NextUploads == Lifecycle \/ Completion \/ UploadPublicEvents \/ UploadRoomEvents
SpecUploads == InitUploads /\ [][NextUploads]_vars

\* the events of handlePublicFlux and handlePrivateRooms and the host's calls
\* of createPrivateRooms, with files as the payload of every upload
FileEvents ==
    \/ \E s \in Sockets, data \in FilePayloads : WithinFiles(data) /\ PublicUpload(s, data)
    \/ \E s \in Sockets : PublicDeleteLast(s)
    \/ \E s \in Sockets, r \in RoomIds :
          \E options \in OpenRoomOptions(r) : RoomCreate(s, r, options.capacity, options.mode)
    \/ \E r \in RoomIds :
          \E options \in OpenRoomOptions(r) : HostCreate(r, options.capacity, options.mode)
    \/ \E s \in Sockets, r \in RoomIds : RoomJoin(s, r)
    \/ \E s \in Sockets, r \in RoomIds : RoomHistory(s, r)
    \/ \E s \in Sockets, r \in RoomIds, data \in FilePayloads :
          WithinFiles(data) /\ RoomUpload(s, r, data)

\* the server calls cleanupDeletedFiles when no call of it is in flight
OneCleanup ==
    \/ CleanupStart(1)
    \/ \E outcome \in {"ok", "ENOENT", "error"} : UnlinkRuns(1, outcome)
    \/ \E outcome \in {"ok", "ENOENT", "error"} : UnlinkDone(1, outcome)

\* the whole server, with an uploadDir and a history of one item, clients
\* that send files, and one call of cleanupDeletedFiles at a time
InitFiles == Init /\ uploadDir /\ maxPublicHistory = 1
NextFiles == Lifecycle \/ Completion \/ FileEvents \/ OneCleanup
SpecFiles == InitFiles /\ [][NextFiles]_vars

\* ----------------------------------------------------------------- claims
\* upload u resumes in this step: its handler runs from the await to its end
Applied(u) == u \in uploads /\ u \notin uploads'

\* what processUpload returned to the handler of the upload u that resumes in
\* this step: its result, unless the file write failed
Processed(u) ==
    IF u.pc = "micro" THEN u.result
    ELSE IF u.result.fileId \in stored' \ partial' THEN u.result ELSE Null

\* the room object upload u read from this.rooms is still in this.rooms
Registered(u) == \E e \in Range(rooms) : e.id = u.roomId /\ e.obj = u.room

\* the file ids among a sequence of items
FileIds(items) == {items[i].fileId : i \in {j \in 1..Len(items) : items[j].type = "file"}}

\* the items a room retains, whatever its mode
Retained(room) ==
    IF room.data.tag = "item" THEN <<room.data.item>>
    ELSE IF room.data.tag = "array" THEN room.data.items
    ELSE <<>>

\* C1: when the write of a file room:upload succeeds after the room it was
\* sent to has been destroyed (its last member disconnected while the upload
\* was suspended), the id of the file just stored is in deletedFiles.
C1_LateUploadIsLedgered ==
    [][\A u \in uploads :
          (/\ Applied(u)
           /\ u.target = "room"
           /\ u.pc = "io"
           /\ ~Registered(u)
           /\ Processed(u) # Null)
          => Processed(u).fileId \in Range(deletedFiles')]_vars

\* C2: while no socket has disconnected, so that every room has stayed active
\* since it was created, and the rooms are singleton rooms: every file that
\* was written in full, by however many uploads whose writes overlapped, is
\* either the data of a room or in deletedFiles, and never both.  So of two overlapping
\* uploads one id is the room's data and the other is ledgered, as is the
\* file the room held before them.
C2_OverlappingSingletonUploads ==
    (/\ \A s \in Sockets : sockState[s] # "disconnected"
     /\ \A e \in Range(rooms) : heap[e.obj].mode = "singleton")
    => \A id \in stored \ partial :
          (\E e \in Range(rooms) : id \in FileIds(Retained(heap[e.obj])))
            # (id \in Range(deletedFiles))

\* C2 witness: with no socket disconnected, a singleton room holds file 2,
\* and files 1 and 3 are ledgered: the write of upload 3 ended before the
\* write of upload 2, which was started first, and file 1 was held before.
C2_Witness ==
    /\ \A s \in Sockets : sockState[s] # "disconnected"
    /\ \E e \in Range(rooms) :
          /\ heap[e.obj].mode = "singleton"
          /\ heap[e.obj].data = Single(StoredFileData(2, maxFileSize))
    /\ Range(deletedFiles) = {1, 3}
    /\ stored = {1, 2, 3}

\* C3: the public history is never longer than maxPublicHistory.
C3_HistoryBounded == Len(publicHistory) <= maxPublicHistory

\* C3 witness: the history is full, a file has been evicted from it, and a
\* public:upload is suspended in its file write.
C3_Witness ==
    /\ maxPublicHistory >= 1
    /\ Len(publicHistory) = maxPublicHistory
    /\ deletedFiles # <<>>
    /\ \E u \in uploads : u.target = "public" /\ u.pc = "io"

\* C4: a public:upload that stores an item appends it; when that makes the
\* history longer than maxPublicHistory exactly one item goes, the one at
\* the head, and the others keep their order.  So the append that follows
\* maxPublicHistory appends leaves maxPublicHistory items, the first of
\* which is the second of the items there were.
C4_EvictionIsFifo ==
    [][\A u \in uploads :
          (Applied(u) /\ u.target = "public" /\ Processed(u) # Null)
          => LET all == Append(publicHistory, Processed(u))
             IN IF Len(all) > maxPublicHistory
                THEN /\ Len(publicHistory') = Len(all) - 1
                     /\ Len(publicHistory') = maxPublicHistory
                     /\ \A i \in 1..Len(publicHistory') : publicHistory'[i] = all[i + 1]
                ELSE publicHistory' = all]_vars

\* C4 witness: maxPublicHistory + 1 = 3 text items were appended one after
\* another; the history holds the second, "b", and the third, "a".
C4_Witness ==
    /\ maxPublicHistory = 2
    /\ nUploads = 3 /\ nFiles = 0 /\ uploads = {}
    /\ publicHistory = <<StringData("b"), StringData("a")>>
    /\ emitted = [event |-> "public:history", to |-> Connected, data |-> publicHistory]

\* C5: when an upload stores item B in an active singleton room that holds
\* A, the room retains B alone, a join from then on is answered with B, and
\* if A is a file its id is in deletedFiles after that same step; and every
\* successful join of a singleton room is answered with the data it holds.
C5_SingletonKeepsLatest ==
    [][/\ \A u \in uploads :
            (/\ Applied(u)
             /\ u.target = "room"
             /\ Registered(u)
             /\ heap[u.room].mode = "singleton"
             /\ Processed(u) # Null)
            => /\ Retained(heap'[u.room]) = <<Processed(u)>>
               /\ JoinData(heap'[u.room]) = Single(Processed(u))
               /\ FileIds(Retained(heap[u.room])) \subseteq Range(deletedFiles')
       /\ (/\ reply'.op = "room:join"
           /\ reply'.success
           /\ heap'[RoomSlot(reply'.roomId)].mode = "singleton")
          => /\ reply'.data = heap'[RoomSlot(reply'.roomId)].data
             /\ Len(Retained(heap'[RoomSlot(reply'.roomId)])) <= 1]_vars

\* C5 witness: a singleton room held file 1, then "b" was uploaded, and the
\* join that followed was answered with "b" alone; file 1 is ledgered.
C5_Witness ==
    /\ reply.op = "room:join" /\ reply.success
    /\ reply.data = Single(StringData("b"))
    /\ heap[RoomSlot(reply.roomId)].mode = "singleton"
    /\ Cardinality(heap[RoomSlot(reply.roomId)].clients) = 2
    /\ deletedFiles = <<1>>

\* a is a prefix of b
IsPrefix(a, b) == Len(a) <= Len(b) /\ SubSeq(b, 1, Len(a)) = a

\* C6: an upload that stores an item in an active history room appends it
\* to the room's sequence; while a history room is active no step removes or
\* reorders what it holds; and a room:history from a client of a history
\* room succeeds, and one that succeeds is answered with the whole sequence
\* of the room.
C6_HistoryKeepsOrder ==
    [][/\ \A u \in uploads :
            (/\ Applied(u)
             /\ u.target = "room"
             /\ Registered(u)
             /\ heap[u.room].mode = "history"
             /\ Processed(u) # Null)
            => Retained(heap'[u.room]) = Append(Retained(heap[u.room]), Processed(u))
       /\ \A e \in Range(rooms) :
            (e \in Range(rooms') /\ heap[e.obj].mode = "history")
            => IsPrefix(Retained(heap[e.obj]), Retained(heap'[e.obj]))
       /\ reply'.op = "room:history"
          => \E r \in RoomIds :
                LET obj == RoomSlot(r)
                    history == obj # 0 /\ heap[obj].mode = "history"
                IN /\ (history /\ reply'.sock \in heap[obj].clients) => reply'.success
                   /\ reply'.success => (history /\ reply'.data = Retained(heap[obj]))]_vars

\* C6 witness: a client of a room asked for its history after the room was
\* sent file 1 and then "a", and got the two in that order.
C6_Witness ==
    /\ reply.op = "room:history" /\ reply.success
    /\ reply.data = <<StoredFileData(1, maxFileSize), StringData("a")>>
    /\ \E e \in Range(rooms) : reply.sock \in heap[e.obj].clients

\* C7 as stated: a room:history step leaves the public history, the rooms and
\* deletedFiles as they were, and its answer is: room not found when the room
\* is absent; else not a member when the requester is not in the room's
\* clients; else wrong mode when the room is not a history room; else success.
\* A failure carries no data.  (The handler tests socket.rooms, which holds
\* the socket's own id: a socket is answered with the history of the room its
\* id names without having joined it.)
C7_HistoryRequestChecks ==
    [][reply'.op = "room:history"
       => /\ UNCHANGED <<publicHistory, rooms, heap, deletedFiles>>
          /\ \E r \in RoomIds :
                LET present == \E e \in Range(rooms) : e.id = r
                    member == present /\ reply'.sock \in heap[RoomSlot(r)].clients
                    history == present /\ heap[RoomSlot(r)].mode = "history"
                IN /\ reply'.success = (present /\ member /\ history)
                   /\ ~reply'.success => "data" \notin DOMAIN reply'
                   /\ reply'.message =
                        IF ~present THEN "Room not found."
                        ELSE IF ~member THEN "You are not a member of this room."
                        ELSE IF ~history THEN "Room is not in history mode."
                        ELSE "History retrieved successfully."]_vars

\* C8 as stated: an upload that a client of a live room sends, and the room
\* accepts, is emitted as room:data to every client of the room but the
\* uploader, and not to the uploader; and a live room never holds data.
\* (socket.to(roomId) leaves out the room named by the id of the sending
\* socket: when roomId is that id, it leaves out the whole room, and the
\* other clients get nothing.)
C8_LiveSkipsUploader ==
    [][/\ \A u \in uploads :
            (/\ Applied(u)
             /\ u.target = "room"
             /\ heap[u.room].mode = "live"
             /\ u.sock \in heap[u.room].clients
             /\ Processed(u) # Null)
            => /\ emitted'.event = "room:data"
               /\ emitted'.data = Processed(u)
               /\ u.sock \notin emitted'.to
               /\ heap[u.room].clients \ {u.sock} \subseteq emitted'.to
       /\ \A o \in DOMAIN heap :
            /\ heap[o].mode = "live" => heap[o].data = Undefined
            /\ heap'[o].mode = "live" => heap'[o].data = Undefined]_vars

\* C9: in the step in which a socket disconnects, every room whose only
\* client it was leaves this.rooms, and deletedFiles gains the ids of the
\* files those rooms retain and nothing else; the other rooms stay.
C9_LastLeaveDestroysRoom ==
    [][\A s \in Sockets :
          (sockState[s] = "connected" /\ sockState'[s] = "disconnected")
          => LET emptied == {e \in Range(rooms) : heap[e.obj].clients = {s}}
             IN /\ \A e \in emptied : \A f \in Range(rooms') : f.id # e.id
                /\ \A e \in Range(rooms) \ emptied : e \in Range(rooms')
                /\ Range(deletedFiles') =
                     Range(deletedFiles)
                       \cup UNION {FileIds(Retained(heap[e.obj])) : e \in emptied}]_vars

\* C9 witness: the last client of a room left; the room is gone, and the two
\* files of the three items that were uploaded to it are ledgered.
C9_Witness ==
    /\ rooms = <<>>
    /\ \E s \in Sockets : sockState[s] = "disconnected"
    /\ nUploads = 3 /\ nFiles = 2 /\ uploads = {}
    /\ stored = {1, 2}
    /\ Range(deletedFiles) = {1, 2}
    /\ reply = NoReply /\ emitted = NoEmit

\* call k of cleanupDeletedFiles runs on in this step
SweepSteps(k) ==
    /\ sweeps[k].pc = "unlink"
    /\ \/ sweeps'[k] = IdleSweep
       \/ Len(sweeps'[k].deleted) + Len(sweeps'[k].failed)
            > Len(sweeps[k].deleted) + Len(sweeps[k].failed)

\* call k of cleanupDeletedFiles returns in this step
SweepReturns(k) == SweepSteps(k) /\ sweeps'[k] = IdleSweep

\* the lists of call k after this step
DeletedAfter(k) == IF SweepReturns(k) THEN reply'.deleted ELSE sweeps'[k].deleted
FailedAfter(k) == IF SweepReturns(k) THEN reply'.failed ELSE sweeps'[k].failed

\* the fs.unlink that call k of cleanupDeletedFiles awaits runs in this step
UnlinkRan(k) ==
    /\ sweeps[k].pc = "unlink" /\ sweeps[k].res = "pending"
    /\ sweeps'[k].pc = "unlink" /\ sweeps'[k].res # "pending"

\* an unlink that succeeds takes the file of the id out of the store; one
\* that reports not-found found no file; and one that does not succeed
\* leaves the store as it is
UnlinkIsOfStore(k) ==
    UnlinkRan(k)
    => LET id == sweeps[k].cur
           res == sweeps'[k].res
       IN /\ sweeps'[k] = [sweeps[k] EXCEPT !.res = res]
          /\ res = "ok" => (id \in stored /\ stored' = stored \ {id})
          /\ res = "ENOENT" => (id \notin stored /\ stored' = stored)
          /\ res = "error" => stored' = stored

\* a visited id whose unlink succeeded or reported not-found is listed under
\* deleted, and one whose unlink failed for another reason under failed; the
\* step that lists it leaves the store as it is
VisitIsReported(k) ==
    LET sw == sweeps[k]
        asDeleted == /\ DeletedAfter(k) = Append(sw.deleted, sw.cur)
                     /\ FailedAfter(k) = sw.failed
        asFailed == /\ DeletedAfter(k) = sw.deleted
                    /\ FailedAfter(k) = Append(sw.failed, sw.cur)
    IN /\ sw.res \in {"ok", "ENOENT"} => asDeleted
       /\ sw.res = "error" => asFailed
       /\ sw.res # "pending"
       /\ stored' = stored

\* a call of cleanupDeletedFiles that finds nothing to do returns empty lists
\* and changes nothing
EmptySweepIsNoOp ==
    (reply'.op = "cleanup" /\ sweeps' = sweeps /\ deletedFiles = <<>>)
    => /\ reply'.deleted = <<>> /\ reply'.failed = <<>>
       /\ UNCHANGED <<deletedFiles, stored, partial, publicHistory, rooms, heap>>

\* C10 as stated: for each id a call of cleanupDeletedFiles visits, a
\* successful or not-found unlink lists it under deleted and it is not in
\* deletedFiles when the call returns; any other failure lists it under failed
\* and it is in deletedFiles when the call returns. A call on an empty
\* deletedFiles returns empty lists and changes nothing.
C10_FailedStaysLedgered ==
    [][/\ \A k \in SweepSlots :
            /\ UnlinkIsOfStore(k)
            /\ SweepSteps(k) => VisitIsReported(k)
            /\ SweepReturns(k)
               => /\ \A id \in Range(reply'.deleted) : id \notin Range(deletedFiles')
                  /\ \A id \in Range(reply'.failed) : id \in Range(deletedFiles')
       /\ EmptySweepIsNoOp]_vars

\* C10 amended: as C10, but an id listed under failed is in deletedFiles when
\* the call returns unless an overlapping call, which found the file deleted
\* or deleted it, has removed the id: the call itself removes from deletedFiles
\* the ids it lists under deleted and no other, and a failed id that is no
\* longer in deletedFiles has no file in the store.
C10_SweepKeepsItsFailures ==
    [][/\ \A k \in SweepSlots :
            /\ UnlinkIsOfStore(k)
            /\ SweepSteps(k) => VisitIsReported(k)
            /\ (SweepSteps(k) /\ ~SweepReturns(k)) => UNCHANGED deletedFiles
            /\ SweepReturns(k)
               => /\ \A id \in Range(reply'.deleted) : id \notin Range(deletedFiles')
                  /\ Range(deletedFiles') = Range(deletedFiles) \ Range(reply'.deleted)
                  /\ \A id \in Range(reply'.failed) :
                        id \in Range(deletedFiles') \/ id \notin stored'
       /\ EmptySweepIsNoOp]_vars

\* C10 witness: a call of cleanupDeletedFiles returned one id as deleted and
\* one as failed; the failed one is in deletedFiles, with its file in the
\* store, and the deleted one is in neither.
C10_Witness ==
    /\ reply.op = "cleanup"
    /\ reply.deleted = <<1>>
    /\ reply.failed = <<2>>
    /\ deletedFiles = <<2>>
    /\ 2 \in stored /\ 1 \notin stored

\* upload u is received in this step: its handler runs up to the await
Issued(u) == u \in uploads' /\ u \notin uploads

\* u carries a file of more than maxFileSize bytes
Oversized(u) == u.data.type = "file" /\ u.data.length > maxFileSize

\* C11: with uploadDir set, processUpload returns null for a file, without
\* writing, exactly when the file is longer than maxFileSize; a file of
\* maxFileSize bytes is written. Neither the step that receives an oversized
\* file nor the step in which its handler resumes changes the stored files or
\* deletedFiles, and a room:upload of it is answered with a failure.
C11_OversizedIsRejected ==
    [][uploadDir =>
        /\ \A u \in uploads' :
              (Issued(u) /\ u.data.type = "file")
              => /\ (u.pc = "micro" /\ u.result = Null) <=> u.data.length > maxFileSize
                 /\ (u.pc = "io" /\ u.result.type = "file" /\ u.result.size = u.data.length)
                      <=> u.data.length <= maxFileSize
                 /\ Oversized(u) => UNCHANGED <<stored, partial, deletedFiles, nFiles>>
        /\ \A u \in uploads :
              (Applied(u) /\ Oversized(u))
              => /\ UNCHANGED <<stored, partial, deletedFiles, nFiles>>
                 /\ u.target = "room" => (reply'.op = "room:upload" /\ ~reply'.success)]_vars

\* C11 witness: of two files sent to the public channel, the one of
\* maxFileSize bytes is in the store and in the history, and the handler of
\* the one a byte longer has ended: nothing else is stored or ledgered.
C11_Witness ==
    /\ uploadDir
    /\ nUploads = 2 /\ uploads = {}
    /\ publicHistory = <<StoredFileData(1, maxFileSize)>>
    /\ stored = {1}
    /\ nFiles = 1
    /\ deletedFiles = <<>>
    /\ emitted = NoEmit

\* C12: a room:create, or a call of createPrivateRooms by the host, is
\* answered with success only for an id that no room was registered under,
\* and the new room is then registered under it; one that fails was made
\* while a room was registered, and leaves this.rooms and every room object
\* (capacity, mode, clients, data) as they were.
C12_CreateKeepsActiveRoom ==
    [][reply'.op \in {"room:create", "createPrivateRooms"}
       => /\ reply'.success
             => /\ RoomSlot(reply'.roomId) = 0
                /\ \E e \in Range(rooms') : e.id = reply'.roomId
          /\ ~reply'.success
             => /\ \E r \in RoomIds : RoomSlot(r) # 0
                /\ reply'.roomId = ""
                /\ UNCHANGED <<rooms, heap, sockRooms, deletedFiles>>]_vars

\* C12 witness: a room:create failed while a history room of capacity 2
\* with two clients and two items was registered; the room is as it was.
C12_Witness ==
    /\ reply.op = "room:create" /\ ~reply.success
    /\ \E e \in Range(rooms) :
          /\ heap[e.obj].mode = "history"
          /\ heap[e.obj].capacity = 2
          /\ heap[e.obj].clients = Sockets
          /\ heap[e.obj].data = Array(<<StringData("a"), StringData("b")>>)

\* C13: a registered room of capacity >= 1 never has more clients than its
\* capacity; and a room:join for such a room by a socket that is not among
\* its clients succeeds and adds the socket while the room has fewer clients
\* than its capacity, and otherwise fails with "Room is full." and leaves
\* the clients as they were.
C13_RoomNeverOverCapacity ==
    [][/\ \A e \in Range(rooms) :
            heap[e.obj].capacity >= 1
            => Cardinality(heap[e.obj].clients) <= heap[e.obj].capacity
       /\ \A e \in Range(rooms') :
            heap'[e.obj].capacity >= 1
            => Cardinality(heap'[e.obj].clients) <= heap'[e.obj].capacity
       /\ reply'.op = "room:join"
          => \A e \in Range(rooms) :
                LET room == heap[e.obj]
                IN (room.capacity >= 1 /\ reply'.sock \notin room.clients)
                   => IF Cardinality(room.clients) < room.capacity
                      THEN /\ reply'.success
                           /\ heap'[e.obj].clients = room.clients \cup {reply'.sock}
                      ELSE /\ ~reply'.success
                           /\ reply'.message = "Room is full."
                           /\ UNCHANGED <<heap, rooms, sockRooms>>]_vars

\* C13 witness: the second socket's room:join of a room of capacity 1 that
\* has one client failed with "Room is full."
C13_Witness ==
    /\ reply.op = "room:join" /\ ~reply.success
    /\ reply.message = "Room is full."
    /\ \E e \in Range(rooms) :
          /\ heap[e.obj].capacity = 1
          /\ Cardinality(heap[e.obj].clients) = 1
          /\ reply.sock \notin heap[e.obj].clients

\* C14 as stated: every room in this.rooms has at least one client.
C14_NoEmptyRoom == \A e \in Range(rooms) : heap[e.obj].clients # {}

\* C14 amended: a room in this.rooms is without clients only from its
\* room:create to its first join: a registered room that has no clients after
\* a step was registered in that step or had none before it, so a room whose
\* last client leaves does not stay registered.
C14_NoRoomStaysEmptied ==
    [][\A e \in Range(rooms') :
          heap'[e.obj].clients = {}
          => \/ \A f \in Range(rooms) : f.id # e.id
             \/ e \in Range(rooms) /\ heap[e.obj].clients = {}]_vars

\* C14 witness: a room held a file and was destroyed when its client left;
\* the other socket created the room again, and nobody has joined it yet.
C14_Witness ==
    /\ \E s \in Sockets : sockState[s] = "disconnected"
    /\ deletedFiles # <<>>
    /\ reply.op = "room:create" /\ reply.success
    /\ \E e \in Range(rooms) : heap[e.obj].clients = {}

\* the step leaves the history, this.rooms, the registered room objects and
\* deletedFiles as they were, and emits nothing
NothingApplied ==
    /\ UNCHANGED <<publicHistory, rooms, deletedFiles>>
    /\ \A e \in Range(rooms) : heap'[e.obj] = heap[e.obj]
    /\ emitted' = NoEmit

\* C15: an upload whose processUpload yields null (no uploadDir, a file
\* over maxFileSize, or a failed write) changes nothing and emits nothing,
\* to the public channel or to a room: not in the step that receives it and
\* not in the step in which its handler resumes, where a room:upload is
\* answered with a failure.
C15_FailedUploadChangesNothing ==
    [][/\ \A u \in uploads' : Issued(u) => NothingApplied
       /\ \A u \in uploads :
            (Applied(u) /\ Processed(u) = Null)
            => /\ NothingApplied
               /\ u.target = "room" => (reply'.op = "room:upload" /\ ~reply'.success)]_vars

\* C15 witness: with a text in the public history and a text in a singleton
\* room, the write of a file sent to the room failed: the upload was
\* answered with a failure, and nothing is ledgered.
C15_Witness ==
    /\ reply.op = "room:upload" /\ ~reply.success
    /\ reply.message = "Failed to process upload."
    /\ uploadDir /\ nFiles = 1 /\ stored = partial
    /\ publicHistory # <<>>
    /\ \E e \in Range(rooms) : heap[e.obj].data = Single(StringData("a"))
    /\ deletedFiles = <<>>
    /\ emitted = NoEmit

\* the ids of the files this step pushes onto the public history
PushedFileIds ==
    {Processed(u).fileId : u \in {v \in uploads : /\ Applied(v)
                                                  /\ v.target = "public"
                                                  /\ Processed(v).type = "file"}}

\* the ids of the files that this step takes out of the public history, or
\* pushes and evicts at once
RemovedFileIds == (FileIds(publicHistory) \cup PushedFileIds) \ FileIds(publicHistory')

\* C16: in a step of the public channel, deletedFiles gains the ids of the
\* files that leave the history in that step, by shift() or by pop(), and
\* nothing else: a string that leaves adds nothing.
C16_RemovedFileIsLedgered ==
    [][/\ RemovedFileIds \subseteq Range(deletedFiles')
       /\ Range(deletedFiles') = Range(deletedFiles) \cup RemovedFileIds]_vars

\* C16 witness: file 1 was evicted by file 2, "a" took the place of file 2,
\* and public:deleteLast popped "a": both files are ledgered, and no more.
C16_Witness ==
    /\ maxPublicHistory = 1
    /\ nUploads = 3 /\ uploads = {}
    /\ publicHistory = <<>>
    /\ emitted = [event |-> "public:history", to |-> Connected, data |-> <<>>]
    /\ deletedFiles = <<1, 2>>
    /\ stored = {1, 2}

\* the uploads that are suspended in fs.writeFile
Writing == {u \in uploads : u.pc = "io"}

\* C17 as stated: fs.writeFile is called once for each file that processUpload
\* accepts and never else, and only a successful upload leaves a file. A
\* room:upload reaches processUpload only from a socket in a registered room,
\* and one that is turned away changes neither the files nor the writes
\* under way; a string starts no write; a write is for an id randomUUID has
\* just returned, which no file and no other write has; a file appears in
\* the store only as the file of a write under way, and not in a step of a
\* handler; and when the handler resumes, the file is in the store if the
\* write succeeded and is not if the handler goes on with null.  (A write
\* that throws after it created the file leaves the file: the catch block of
\* processUpload returns null and unlinks nothing.)
C17_OneWritePerStoredFile ==
    [][/\ \A u \in uploads' :
            Issued(u)
            => /\ u.target = "room"
                  => (RoomSlot(u.roomId) = u.room /\ u.room # 0 /\ u.roomId \in sockRooms[u.sock])
               /\ UNCHANGED <<stored, partial>>
               /\ u.data.type = "string" => (u.pc = "micro" /\ nFiles' = nFiles)
               /\ u.pc = "io"
                  => /\ nFiles' = nFiles + 1
                     /\ u.result.fileId = nFiles'
                     /\ u.result.fileId \notin stored
                     /\ \A v \in Writing : v.result.fileId # u.result.fileId
       /\ (reply'.op = "room:upload" /\ reply'.message = "You are not in this room.")
          => UNCHANGED <<stored, partial, uploads, nFiles>>
       /\ \A id \in stored' \ stored :
             /\ \E u \in Writing : u.result.fileId = id
             /\ UNCHANGED uploads
       /\ \A u \in uploads :
            Applied(u)
            => /\ stored' = stored
               /\ u.pc = "io" => (Processed(u) # Null <=> u.result.fileId \in stored')
       /\ Cardinality(stored') + Cardinality({u \in uploads' : u.pc = "io"
                                                  /\ u.result.fileId \notin stored'})
            <= nFiles']_vars

\* the ids of the files that the public history or a registered room holds
LiveFileIds ==
    FileIds(publicHistory) \cup UNION {FileIds(Retained(heap[e.obj])) : e \in Range(rooms)}

\* C18: no id in deletedFiles is the id of a file in the public history or
\* in the data of a room in this.rooms.
C18_LedgeredIsNotLive == Range(deletedFiles) \cap LiveFileIds = {}

\* C18 witness: file 1 was evicted from the public history by a text, and a
\* registered room holds file 2: 1 is ledgered and 2 is live.
C18_Witness ==
    /\ publicHistory = <<StringData("a")>>
    /\ deletedFiles = <<1>>
    /\ \E e \in Range(rooms) : FileIds(Retained(heap[e.obj])) = {2}
    /\ stored = {1, 2}

\* C19: an id that is in deletedFiles before a step and not after it was
\* removed by a call of cleanupDeletedFiles that returns in that step and
\* lists it under deleted, and has no file in the store; an id goes under
\* deleted only when its unlink succeeded or found no file, so that no file
\* is left; and without uploadDir, where cleanupDeletedFiles clears
\* deletedFiles, there is nothing in it to clear.
C19_OnlyCleanupUnledgers ==
    [][/\ \A id \in Range(deletedFiles) :
            id \notin Range(deletedFiles')
            => \E k \in SweepSlots :
                  /\ SweepReturns(k)
                  /\ id \in Range(reply'.deleted)
                  /\ id \notin stored'
       /\ \A k \in SweepSlots :
            /\ UnlinkIsOfStore(k)
            /\ (SweepSteps(k) /\ DeletedAfter(k) # sweeps[k].deleted)
               => /\ DeletedAfter(k) = Append(sweeps[k].deleted, sweeps[k].cur)
                  /\ sweeps[k].res \in {"ok", "ENOENT"}
                  /\ sweeps[k].cur \notin stored'
       /\ ~uploadDir => (deletedFiles = <<>> /\ deletedFiles' = <<>>)]_vars

\* C19 witness: file 1 of a singleton room was overwritten by file 2 and the
\* room's last client left; a cleanup deleted file 1 and failed on file 2: 1
\* left deletedFiles, and 2, which is in the store, stays in it.
C19_Witness ==
    /\ rooms = <<>>
    /\ \E s \in Sockets : sockState[s] = "disconnected"
    /\ reply.op = "cleanup"
    /\ reply.deleted = <<1>> /\ reply.failed = <<2>>
    /\ deletedFiles = <<2>>
    /\ stored = {2}

\* a call of cleanupDeletedFiles is suspended in fs.unlink
Sweeping == \E k \in SweepSlots : sweeps[k].pc = "unlink"

\* the files that leave the public history while a call of
\* cleanupDeletedFiles is suspended are in deletedFiles after that same step
MarksTakeEffect == Sweeping => RemovedFileIds \subseteq Range(deletedFiles')

\* C20 as stated: an id that is added to deletedFiles while a call of
\* cleanupDeletedFiles is suspended is in deletedFiles after the step that
\* adds it, and when the call returns it is in deletedFiles or in the list
\* of deleted ids that the call returns.
C20_MarkedStaysOrIsDeleted ==
    [][/\ MarksTakeEffect
       /\ \A k \in SweepSlots :
            SweepReturns(k)
            => \A m \in sweeps[k].marked :
                  m \in Range(deletedFiles') \/ m \in Range(reply'.deleted)]_vars

\* C20 amended: as C20, but when the call returns the id may also have been
\* removed by an overlapping call that lists it under deleted: it is in
\* deletedFiles, or in the list of deleted ids that the call returns, or its
\* file is no longer in the store; and in the deleted list it is only when
\* the file is gone.
C20_MarkedIsNotLost ==
    [][/\ MarksTakeEffect
       /\ \A k \in SweepSlots :
            SweepReturns(k)
            => \A m \in sweeps[k].marked :
                  /\ \/ m \in Range(deletedFiles')
                     \/ m \in Range(reply'.deleted)
                     \/ m \notin stored'
                  /\ m \in Range(reply'.deleted) => m \notin stored'
                  /\ m \in stored' => m \in Range(deletedFiles')]_vars

\* C20 witness: a call of cleanupDeletedFiles that began with file 1 in
\* deletedFiles was suspended when file 2 was added; it has deleted file 1
\* and gone on to file 2, which is still in deletedFiles.
C20_Witness ==
    \E k \in SweepSlots :
       /\ sweeps[k].pc = "unlink"
       /\ sweeps[k].deleted = <<1>>
       /\ sweeps[k].cur = 2
       /\ sweeps[k].marked = {2}
       /\ deletedFiles = <<1, 2>>

\* socket s disconnects in this step
Leaves(s) == sockState[s] = "connected" /\ sockState'[s] = "disconnected"

\* C21: a room that is in this.rooms before a step and not after it had one
\* client, and that client disconnects in the step: no other step takes a
\* room out of this.rooms. A disconnect of one of several clients of a room
\* leaves the room registered, with the other clients and with its capacity,
\* mode and data as they were.
C21_OnlyLastLeaveRemovesRoom ==
    [][\A e \in Range(rooms) :
          /\ e \notin Range(rooms')
             => \E s \in Sockets : Leaves(s) /\ heap[e.obj].clients = {s}
          /\ \A s \in Sockets :
                (Leaves(s) /\ heap[e.obj].clients \ {s} # {})
                => /\ e \in Range(rooms')
                   /\ heap'[e.obj] = [heap[e.obj] EXCEPT !.clients = @ \ {s}]
          /\ (\A s \in Sockets : ~Leaves(s)) => e \in Range(rooms')]_vars

\* C21 witness: one of the two clients of a room that holds a file has
\* disconnected; the room is registered with the other client and the file,
\* while a file waits in deletedFiles for the cleanup that is under way.
C21_Witness ==
    /\ \E s \in Sockets :
          /\ sockState[s] = "disconnected"
          /\ \E e \in Range(rooms) :
                /\ heap[e.obj].clients = Sockets \ {s}
                /\ FileIds(Retained(heap[e.obj])) # {}
    /\ sweeps[1].pc = "unlink"
    /\ reply = NoReply /\ emitted = NoEmit

\* the step emits public:history, with the history as it is after the step,
\* to every connected socket
BroadcastsHistory ==
    emitted' = [event |-> "public:history",
                to |-> {s \in Sockets : sockState'[s] = "connected"},
                data |-> publicHistory']

\* C22: a step that changes the public history, and every step in which a
\* public:upload resumes with an item, emits public:history with the whole
\* history as it is after the step to every connected socket, the sender of
\* the event among them while it is connected; a step that shortens the
\* history is a pop of its last item; and while the history is empty, a
\* step in which no upload resumes and no socket connects, as a
\* public:deleteLast is, leaves it empty and emits nothing.
C22_MutationIsBroadcast ==
    [][/\ publicHistory' # publicHistory => BroadcastsHistory
       /\ \A u \in uploads :
            (Applied(u) /\ u.target = "public" /\ Processed(u) # Null)
            => /\ BroadcastsHistory
               /\ sockState'[u.sock] = "connected" => u.sock \in emitted'.to
       /\ Len(publicHistory') < Len(publicHistory)
          => /\ publicHistory' = SubSeq(publicHistory, 1, Len(publicHistory) - 1)
             /\ BroadcastsHistory
       /\ (/\ publicHistory = <<>>
           /\ \A u \in uploads : ~Applied(u)
           /\ \A s \in Sockets : sockState'[s] = "connected" => sockState[s] = "connected")
          => publicHistory' = <<>> /\ emitted' = NoEmit]_vars

\* C22 witness: "a" and then file 1 were pushed onto a history that keeps
\* two items, and public:deleteLast popped the file: what is left was
\* emitted to both sockets.
C22_Witness ==
    /\ maxPublicHistory = 2
    /\ nUploads = 2 /\ uploads = {}
    /\ publicHistory = <<StringData("a")>>
    /\ deletedFiles = <<1>>
    /\ emitted = [event |-> "public:history", to |-> Sockets, data |-> publicHistory]

\* C23: a room:join that succeeds was sent for a registered room with fewer
\* clients than its capacity; it adds the socket to the room's clients and
\* changes nothing else of the room, and it is answered with the item of a
\* singleton room or with undefined when the room holds none, with the whole
\* array of a history room, and with undefined for a live room. A room:join
\* that fails was sent for an id with no room or for a room that is full; it
\* changes no room and its answer has no data.
C23_JoinReturnsRetainedData ==
    [][reply'.op = "room:join"
       => IF reply'.success
          THEN \E e \in Range(rooms) :
                  LET room == heap[e.obj]
                  IN /\ e.id = reply'.roomId
                     /\ Cardinality(room.clients) < room.capacity
                     /\ rooms' = rooms
                     /\ heap' = [heap EXCEPT ![e.obj].clients = room.clients \cup {reply'.sock}]
                     /\ reply'.sock \in heap'[e.obj].clients
                     /\ room.mode = "singleton"
                        => /\ reply'.data = room.data
                           /\ reply'.data.tag \in {"item", "undefined"}
                     /\ room.mode = "history"
                        => /\ reply'.data = room.data
                           /\ reply'.data = Array(Retained(room))
                     /\ room.mode = "live" => reply'.data = Undefined
          ELSE /\ "data" \notin DOMAIN reply'
               /\ UNCHANGED <<rooms, heap, sockRooms>>
               /\ \E r \in RoomIds :
                     \/ RoomSlot(r) = 0 /\ reply'.message = "Room not found."
                     \/ /\ RoomSlot(r) # 0
                        /\ Cardinality(heap[RoomSlot(r)].clients) >= heap[RoomSlot(r)].capacity
                        /\ reply'.message = "Room is full."]_vars

\* C23 witness: the second socket joined a history room that had been sent
\* "b" and then file 1, and was answered with the two in that order.
C23_Witness ==
    /\ reply.op = "room:join" /\ reply.success
    /\ reply.data = Array(<<StringData("b"), StoredFileData(1, maxFileSize)>>)
    /\ \E e \in Range(rooms) :
          /\ e.id = reply.roomId
          /\ heap[e.obj].mode = "history"
          /\ heap[e.obj].clients = Sockets

\* C24: a room:upload that resumes with an item in a singleton or history
\* room emits exactly one room:data for the room id, which carries that item
\* alone (for a history room not the array), to every client of the room,
\* the uploader among them while it is one; and the upload is answered with
\* success.
C24_UploadIsEmittedToAll ==
    [][\A u \in uploads :
          (/\ Applied(u)
           /\ u.target = "room"
           /\ heap[u.room].mode \in {"singleton", "history"}
           /\ Processed(u) # Null)
          => /\ emitted'.event = "room:data"
             /\ emitted'.room = u.roomId
             /\ emitted'.data = Processed(u)
             /\ emitted'.data.type \in {"string", "file"}
             /\ heap[u.room].clients \subseteq emitted'.to
             /\ u.sock \in heap[u.room].clients => u.sock \in emitted'.to
             /\ reply'.op = "room:upload" /\ reply'.success /\ reply'.sock = u.sock]_vars

\* C24 witness: a client of a history room of two that held "a" uploaded
\* "b": "b" alone was emitted, to both clients, and the room holds "a", "b".
C24_Witness ==
    /\ reply.op = "room:upload" /\ reply.success
    /\ emitted.event = "room:data"
    /\ emitted.data = StringData("b")
    /\ emitted.to = Sockets
    /\ \E e \in Range(rooms) :
          /\ heap[e.obj].mode = "history"
          /\ heap[e.obj].clients = Sockets
          /\ heap[e.obj].data = Array(<<StringData("a"), StringData("b")>>)

\* no upload handler and no call of cleanupDeletedFiles is suspended
Quiescent == uploads = {} /\ \A k \in SweepSlots : sweeps[k] = IdleSweep

\* C25: when no upload and no cleanup is suspended, every file that was
\* written to the store in full and is still there is in the public history,
\* in the data of a room in this.rooms, or has its id in deletedFiles.
C25_NoOrphanFile ==
    Quiescent => (stored \ partial) \subseteq LiveFileIds \cup Range(deletedFiles)

\* C26: when a room:upload that resumes with an item in a singleton or
\* history room emits room:data to clients of a room id, a room is
\* registered under that id after the step and the item is the last it
\* retains: the data of a singleton room, the last element of the array of
\* a history room.
C26_BroadcastReflectsActiveRoom ==
    [][\A u \in uploads :
          (/\ Applied(u)
           /\ u.target = "room"
           /\ heap[u.room].mode \in {"singleton", "history"}
           /\ Processed(u) # Null
           /\ emitted'.event = "room:data"
           /\ emitted'.to # {})
          => \E e \in Range(rooms') :
                /\ e.id = emitted'.room
                /\ Retained(heap'[e.obj]) # <<>>
                /\ Retained(heap'[e.obj])[Len(Retained(heap'[e.obj]))] = emitted'.data]_vars

\* C27: when a room:upload resumes for a room that is in this.rooms and in
\* that step the room's data changes or room:data is emitted to a client,
\* the socket that sent the upload is one of the room's clients.
C27_UploaderIsStillMember ==
    [][\A u \in uploads :
          (/\ Applied(u)
           /\ u.target = "room"
           /\ Registered(u)
           /\ \/ heap'[u.room].data # heap[u.room].data
              \/ emitted'.event = "room:data" /\ emitted'.to # {})
          => u.sock \in heap[u.room].clients]_vars

\* C28 as stated, for the files among the items: randomUUID is called when
\* the public:upload of a file is received, so the k-th file received has
\* id k; if the history keeps the order in which the uploads were received,
\* the ids of the files in it increase from its head to its end.
C28_HistoryInArrivalOrder ==
    \A i, j \in 1..Len(publicHistory) :
       (i < j /\ publicHistory[i].type = "file" /\ publicHistory[j].type = "file")
       => publicHistory[i].fileId < publicHistory[j].fileId

\* a is what is left of b when items are taken from its head
IsSuffix(a, b) == Len(a) <= Len(b) /\ SubSeq(b, Len(b) - Len(a) + 1, Len(b)) = a

\* C28 amended: the history is in the order in which the uploads finish, not
\* in which they were received. A public:upload that resumes with an item
\* puts it at the end of the history, and the items that stay keep their
\* order; any other step leaves the history or takes its last item; and an
\* upload never resumes while an upload that was received before it and did
\* not go on to write a file is waiting: texts are pushed in the order in
\* which they were received, and only an upload that writes a file is
\* overtaken.
C28_HistoryInCompletionOrder ==
    [][/\ \A u \in uploads :
            (Applied(u) /\ u.target = "public" /\ Processed(u) # Null)
            => /\ IsSuffix(publicHistory', Append(publicHistory, Processed(u)))
               /\ maxPublicHistory >= 1
                  => publicHistory'[Len(publicHistory')] = Processed(u)
       /\ (\A u \in uploads : ~(Applied(u) /\ u.target = "public" /\ Processed(u) # Null))
          => IsPrefix(publicHistory', publicHistory)
       /\ \A u \in uploads :
            Applied(u) => \A v \in uploads : (v.pc = "micro" /\ v # u) => u.uid < v.uid]_vars

\* C28 witness: of two files sent to the public channel the write of the
\* second ended first: file 2 is in the history before file 1, and the
\* upload of a text is waiting to resume.
C28_Witness ==
    /\ maxPublicHistory = 2
    /\ publicHistory = <<StoredFileData(2, maxFileSize), StoredFileData(1, maxFileSize)>>
    /\ \E u \in uploads : u.target = "public" /\ u.pc = "micro" /\ u.uid = 3

====
